---- MODULE Spec2Model ----
(***************************************************************************)
(* Model of the model abstraction layer of src/OpenDataApi.ipynb: the      *)
(* Model contract (fit / predict / clone and the subclass registry), the   *)
(* three classical-estimator adapters and the gradient-trained mixins.     *)
(*                                                                         *)
(* A training set is a bag of rows <<y, w>>: y is the class index of the   *)
(* row (the arg-max of its one-hot label; the target value for a           *)
(* regressor) and w its sample weight.  The covariates are opaque to every *)
(* code path modelled here and are not represented.                        *)
(***************************************************************************)
EXTENDS Bags, FiniteSets, Integers, Sequences, TLC

VARIABLES objs,       \* model instances: id -> fields of the Python object
          heap,       \* objects the instances refer to (wrapped sk-learn
                      \* estimators, parameter tensors): ref -> state
          last,       \* the last call made and what it returned or raised
          Models,     \* Model.Models: lowercased class name -> class
          subclasses  \* Model subclasses defined so far, in definition order

vars == <<objs, heap, last, Models, subclasses>>

(***************************************************************************)
(* Bounds                                                                  *)
(***************************************************************************)
MaxRows == 2        \* rows of a training set
MaxWeight == 1      \* sample weights are 1..MaxWeight
MaxClasses == 3     \* num_classes of a classifier is 2..MaxClasses
MaxTarget == 1      \* regression targets are 0..MaxTarget
MaxX == 2           \* rows of the argument of predict
MaxObjs == 2        \* model instances alive (originals and clones)
MaxEpochs == 2      \* epochs of one fit of a gradient-trained model
MaxSteps == 2       \* optimizer steps applied to one parameter set
MaxDefs == 3        \* Model subclasses defined
MaxNameLen == 2     \* characters of a class name
MaxLoopRows == 3    \* rows of a training set of a gradient-trained model

(***************************************************************************)
(* Helpers on sets, sequences and bags                                     *)
(***************************************************************************)
Min(S) == CHOOSE m \in S : \A n \in S : m <= n

RECURSIVE SortedSeq(_)
SortedSeq(S) == IF S = {} THEN <<>>
                ELSE <<Min(S)>> \o SortedSeq(S \ {Min(S)})

RECURSIVE SumOver(_, _)
SumOver(S, f) == IF S = {} THEN 0
                 ELSE LET e == CHOOSE e \in S : TRUE
                      IN f[e] + SumOver(S \ {e}, f)

RECURSIVE Gcd(_, _)
Gcd(a, b) == IF b = 0 THEN a ELSE Gcd(b, a % b)

RECURSIVE GcdSeq(_)
GcdSeq(s) == IF s = <<>> THEN 0 ELSE Gcd(Head(s), GcdSeq(Tail(s)))

\* all bags of at most n elements of K
AllBags(K, n) ==
    {b \in UNION {[S -> 1..n] : S \in {T \in SUBSET K : Cardinality(T) <= n}} :
        SumOver(DOMAIN b, b) <= n}

Size(b) == SumOver(DOMAIN b, b)

\* the bag of f(e) for e in bag b
MapBag(b, F(_)) ==
    [v \in {F(e) : e \in DOMAIN b} |->
        SumOver({e \in DOMAIN b : F(e) = v}, b)]

(***************************************************************************)
(* The weighted sample container and the data a caller can pass            *)
(***************************************************************************)
Weights == 1..MaxWeight
NumClasses == 2..MaxClasses
Targets == 0..MaxTarget

CatDatasets(ys) == AllBags(ys \X Weights, MaxRows)
\* CatDataset(x_train, y_train, sample_weight): the aligned rows; without
\* sample_weight the container yields 2-tuples, i.e. rows with no weight, which
\* every consumer treats as unit weight
CatDataset(rows, sample_weight) ==
    IF sample_weight THEN rows ELSE MapBag(rows, LAMBDA r : <<r[1], 1>>)

\* training sets by label width, computed once
DatasetsByWidth == [d \in 1..MaxClasses |-> CatDatasets(0..(d - 1))]
RegressionDatasets == CatDatasets(Targets)
TorchDatasets == CatDatasets({0})
UnitDatasets == AllBags((0..(MaxClasses - 1) \cup Targets) \X {1}, MaxRows)

y_of(rows) == MapBag(rows, LAMBDA r : r[1])
AllUnit(rows) == \A r \in DOMAIN rows : r[2] = 1
AllEqual(rows) == \A r, q \in DOMAIN rows : r[2] = q[2]
WeightSum(rows) == SumOver(DOMAIN rows, [r \in DOMAIN rows |-> r[2] * rows[r]])

\* how the caller passes the weights: not at all, under the parameter name the
\* implementations declare, or under the name the Model contract declares
Keywords == {"none", "sample_weight", "sample_weights"}

(***************************************************************************)
(* sk-learn estimators as the adapters use them                            *)
(***************************************************************************)
NoEst == [cls |-> "", strategy |-> "", fitted |-> FALSE, classes_ |-> <<>>,
          n_classes_ |-> 0, class_prior_ |-> <<>>, constant_ |-> <<>>,
          train |-> EmptyBag, steps |-> 0]

\* base_model(*args, **kwargs): the configured estimator, not yet fitted; cls
\* is "classifier" or "regressor"
base_model(cls) == [NoEst EXCEPT !.cls = cls]

IndexOf(s, v) == {i \in 1..Len(s) : s[i] = v}

\* position of the first maximum, 0-based as numpy's argmax
ArgMax(s) == Min({i \in 1..Len(s) : \A j \in 1..Len(s) : s[j] <= s[i]}) - 1

Reduce(s) == LET g == GcdSeq(s) IN
             IF g = 0 THEN s ELSE [i \in 1..Len(s) |-> s[i] \div g]

\* sklearn.utils.multiclass.class_distribution: the sorted distinct classes,
\* their number and their weighted frequencies (kept as reduced integer ratios)
class_distribution(rows) ==
    LET classes == SortedSeq(DOMAIN y_of(rows))
        count(c) == WeightSum([r \in {q \in DOMAIN rows : q[1] = c} |-> rows[r]])
    IN [classes_ |-> classes, n_classes_ |-> Len(classes),
        class_prior_ |-> Reduce([i \in 1..Len(classes) |-> count(classes[i])])]

\* DummyClassifier(strategy, constant).fit(X, y, sample_weight)
DummyClassifier_fit(strategy, rows) ==
    LET d == class_distribution(rows) IN
    [est |-> [NoEst EXCEPT !.cls = "DummyClassifier", !.strategy = strategy,
                           !.fitted = TRUE, !.classes_ = d.classes_,
                           !.n_classes_ = d.n_classes_,
                           !.class_prior_ = d.class_prior_],
     raised |-> IF strategy = "constant" /\ IndexOf(d.classes_, 0) = {}
                THEN "ValueError" ELSE "none"]

\* the weighted mean as a reduced fraction <<numerator, denominator>>
Mean(rows) ==
    LET num == SumOver(DOMAIN rows,
                       [r \in DOMAIN rows |-> r[1] * r[2] * rows[r]])
    IN Reduce(<<num, WeightSum(rows)>>)

\* DummyRegressor(strategy="mean").fit(X, y, sample_weight)
DummyRegressor_fit(est, rows) ==
    IF WeightSum(rows) = 0
    THEN [est |-> est, raised |-> "ZeroDivisionError"]
    ELSE [est |-> [NoEst EXCEPT !.cls = "DummyRegressor", !.strategy = "mean",
                                !.fitted = TRUE, !.n_classes_ = 1,
                                !.constant_ = <<Mean(rows)>>],
          raised |-> "none"]

\* self.model.fit(x_train, y_train, *args, sample_weight=..., **kwargs) on
\* whatever estimator the adapter currently wraps.  A keyword the estimator's
\* fit does not declare is a TypeError raised at the call, before any change.
model_fit(est, rows, kwargs) ==
    IF kwargs THEN [est |-> est, raised |-> "TypeError"]
    ELSE IF est.cls = "DummyClassifier"
         THEN DummyClassifier_fit(est.strategy, rows)
    ELSE IF est.cls = "DummyRegressor" THEN DummyRegressor_fit(est, rows)
    ELSE IF est.cls = "classifier"
         THEN [est |-> [est EXCEPT !.fitted = TRUE,
                                   !.classes_ = SortedSeq(DOMAIN y_of(rows)),
                                   !.n_classes_ = Cardinality(DOMAIN y_of(rows)),
                                   !.train = rows],
               raised |-> "none"]
    ELSE [est |-> [est EXCEPT !.fitted = TRUE, !.train = rows],
          raised |-> "none"]

NoOut == [nrows |-> 0, ncols |-> 0, row |-> <<>>]

OneHot(width, ind) == [i \in 1..width |-> IF i = ind + 1 THEN 1 ELSE 0]

\* self.model.predict_proba(x) for n rows of x
predict_proba(est, n) ==
    IF ~est.fitted THEN [out |-> NoOut, raised |-> "NotFittedError"]
    ELSE IF est.cls = "DummyClassifier"
    THEN LET ind == IF est.strategy = "most_frequent"
                    THEN {ArgMax(est.class_prior_)}
                    ELSE {i - 1 : i \in IndexOf(est.classes_, 0)}
         IN IF \E i \in ind : i >= est.n_classes_
            THEN [out |-> NoOut, raised |-> "IndexError"]
            ELSE [out |-> [nrows |-> n, ncols |-> est.n_classes_,
                           row |-> [i \in 1..est.n_classes_ |->
                                      IF (i - 1) \in ind THEN 1 ELSE 0]],
                  raised |-> "none"]
    ELSE [out |-> [nrows |-> n, ncols |-> Len(est.classes_),
                   row |-> <<"predict_proba", est.train>>],
          raised |-> "none"]

\* self.model.predict(x).reshape(-1, num_classes) for n rows of x
predict_reshape(est, n, num_classes) ==
    IF ~est.fitted THEN [out |-> NoOut, raised |-> "NotFittedError"]
    ELSE IF est.cls = "DummyRegressor"
    THEN [out |-> [nrows |-> (n * Len(est.constant_)) \div num_classes,
                   ncols |-> num_classes,
                   row |-> [i \in 1..num_classes |->
                              est.constant_[((i - 1) % Len(est.constant_)) + 1]]],
          raised |-> "none"]
    ELSE [out |-> [nrows |-> n, ncols |-> num_classes,
                   row |-> <<"predict", est.train>>],
          raised |-> "none"]

(***************************************************************************)
(* Model instances                                                         *)
(***************************************************************************)
Classifiers == {"ClassifierSkLearnWrapper", "ClassifierUnweightedSkLearnWrapper"}
Adapters == Classifiers \cup {"RegressionSkLearnWrapper"}

NoCall == [op |-> "none", obj |-> 0, kw |-> "none", raised |-> "none",
           path |-> "", replaced |-> FALSE, y |-> EmptyBag, wkind |-> "",
           trace |-> <<>>, x |-> 0, out |-> NoOut, batch_size |-> 0,
           epochs |-> 0]

WKind(rows, kw) == IF kw = "none" THEN ""
                   ELSE IF AllUnit(rows) THEN "unit"
                   ELSE IF AllEqual(rows) THEN "equal"
                   ELSE "mixed"

\* a reference for a new object that instance o will refer to: one that no
\* other instance holds
NewRef(o) ==
    LET held == {objs[p].model : p \in DOMAIN objs \ {o}} IN
    IF o \notin held THEN o ELSE Min((1..(MaxObjs + 1)) \ held)

\* objects no instance refers to any more are freed
Live(obs, h) == [r \in {obs[o].model : o \in DOMAIN obs} \cap DOMAIN h |-> h[r]]

\* self.model = est: the adapter now wraps a new estimator object
SetModel(o, est, call) ==
    /\ objs' = [objs EXCEPT ![o].model = NewRef(o)]
    /\ heap' = Live(objs', [r \in DOMAIN heap \cup {NewRef(o)} |->
                              IF r = NewRef(o) THEN est ELSE heap[r]])
    /\ last' = [call EXCEPT !.replaced = TRUE]
    /\ UNCHANGED <<Models, subclasses>>

\* self.model.fit(...): the wrapped estimator object is fitted in place
FitModel(o, res, call) ==
    /\ heap' = [heap EXCEPT ![objs[o].model] = res.est]
    /\ last' = [call EXCEPT !.raised = res.raised]
    /\ UNCHANGED <<objs, Models, subclasses>>

\* the call raised before it changed anything
Raise(exc, call) ==
    /\ last' = [call EXCEPT !.raised = exc]
    /\ UNCHANGED <<objs, heap, Models, subclasses>>

\* the constant fallback as sk-learn fits it, reporting the one class it saw
constant_fallback_one_class(num_classes) ==
    DummyClassifier_fit("constant", SetToBag({<<0, 1>>})).est

\* DummyClassifier(strategy="constant", constant=0).fit([0], [0]) with
\* n_classes_ overwritten
constant_fallback(num_classes) ==
    [DummyClassifier_fit("constant", SetToBag({<<0, 1>>})).est
        EXCEPT !.n_classes_ = num_classes]

\* DummyClassifier(strategy="most_frequent").fit(x_train, y_train) with
\* n_classes_ overwritten
most_frequent_fallback(dataset, num_classes) ==
    [DummyClassifier_fit("most_frequent", CatDataset(dataset, FALSE)).est
        EXCEPT !.n_classes_ = num_classes]

\* np.random.choice(num_samples, size=num_samples, replace=True, p=...): the
\* rows drawn, each of which has positive weight
Resamples(dataset) ==
    {b \in AllBags({r \in DOMAIN dataset : r[2] > 0}, Size(dataset)) :
        Size(b) = Size(dataset)}

\* the fit with the weighted branch of the unweighted variant
ClassifierSkLearnWrapper_fit_resampled(o, rows, kw) ==
    /\ o \in DOMAIN objs
    /\ objs[o].kind = "ClassifierSkLearnWrapper"
    /\ LET self == objs[o]
           sample_weight == (kw = "sample_weight")
           kwargs == (kw = "sample_weights")
           dataset == CatDataset(rows, sample_weight)
           num_samples == Size(CatDataset(rows, FALSE))
           y_train_unique == DOMAIN y_of(dataset)
           call == [NoCall EXCEPT !.op = "fit", !.obj = o, !.kw = kw,
                                  !.y = y_of(rows), !.wkind = WKind(rows, kw)]
       IN IF num_samples = 0
          THEN SetModel(o, constant_fallback(self.num_classes),
                        [call EXCEPT !.path = "empty"])
          ELSE IF Cardinality(y_train_unique) # self.num_classes
          THEN SetModel(o, most_frequent_fallback(dataset, self.num_classes),
                        [call EXCEPT !.path = "missing"])
          ELSE IF sample_weight
          THEN IF WeightSum(dataset) = 0
               THEN Raise("ValueError", [call EXCEPT !.path = "weighted"])
               ELSE \E indices \in Resamples(dataset) :
                      FitModel(o, model_fit(heap[self.model],
                                            CatDataset(indices, FALSE), kwargs),
                               [call EXCEPT !.path = "weighted"])
          ELSE FitModel(o, model_fit(heap[self.model], dataset, kwargs),
                        [call EXCEPT !.path = "unweighted"])

ClassifierSkLearnWrapper_fit(o, rows, kw) ==
    /\ o \in DOMAIN objs
    /\ objs[o].kind = "ClassifierSkLearnWrapper"
    /\ LET self == objs[o]
           sample_weight == (kw = "sample_weight")
           kwargs == (kw = "sample_weights")
           dataset == CatDataset(rows, sample_weight)
           num_samples == Size(dataset)
           y_train_unique == DOMAIN y_of(dataset)
           call == [NoCall EXCEPT !.op = "fit", !.obj = o, !.kw = kw,
                                  !.y = y_of(rows), !.wkind = WKind(rows, kw)]
       IN IF num_samples = 0
          THEN SetModel(o, constant_fallback(self.num_classes),
                        [call EXCEPT !.path = "empty"])
          ELSE IF Cardinality(y_train_unique) # self.num_classes
          THEN SetModel(o, most_frequent_fallback(dataset, self.num_classes),
                        [call EXCEPT !.path = "missing"])
          ELSE IF sample_weight
          THEN FitModel(o, model_fit(heap[self.model], dataset, kwargs),
                        [call EXCEPT !.path = "weighted"])
          ELSE FitModel(o, model_fit(heap[self.model], dataset, kwargs),
                        [call EXCEPT !.path = "unweighted"])

\* the fit with the weights tested before the classes
ClassifierUnweightedSkLearnWrapper_fit_weights_first(o, rows, kw) ==
    /\ o \in DOMAIN objs
    /\ objs[o].kind = "ClassifierUnweightedSkLearnWrapper"
    /\ LET self == objs[o]
           sample_weight == (kw = "sample_weight")
           kwargs == (kw = "sample_weights")
           dataset == CatDataset(rows, sample_weight)
           num_samples == Size(CatDataset(rows, FALSE))
           y_train_unique == DOMAIN y_of(dataset)
           call == [NoCall EXCEPT !.op = "fit", !.obj = o, !.kw = kw,
                                  !.y = y_of(rows), !.wkind = WKind(rows, kw)]
       IN IF num_samples = 0
          THEN SetModel(o, constant_fallback(self.num_classes),
                        [call EXCEPT !.path = "empty"])
          ELSE IF sample_weight
          THEN IF WeightSum(dataset) = 0
               THEN Raise("ValueError", [call EXCEPT !.path = "weighted"])
               ELSE \E indices \in Resamples(dataset) :
                      FitModel(o, model_fit(heap[self.model],
                                            CatDataset(indices, FALSE), kwargs),
                               [call EXCEPT !.path = "weighted"])
          ELSE IF Cardinality(y_train_unique) # self.num_classes
          THEN SetModel(o, most_frequent_fallback(dataset, self.num_classes),
                        [call EXCEPT !.path = "missing"])
          ELSE FitModel(o, model_fit(heap[self.model], dataset, kwargs),
                        [call EXCEPT !.path = "unweighted"])

ClassifierUnweightedSkLearnWrapper_fit(o, rows, kw) ==
    /\ o \in DOMAIN objs
    /\ objs[o].kind = "ClassifierUnweightedSkLearnWrapper"
    /\ LET self == objs[o]
           sample_weight == (kw = "sample_weight")
           kwargs == (kw = "sample_weights")
           dataset == CatDataset(rows, sample_weight)
           num_samples == Size(CatDataset(rows, FALSE))
           y_train_unique == DOMAIN y_of(dataset)
           call == [NoCall EXCEPT !.op = "fit", !.obj = o, !.kw = kw,
                                  !.y = y_of(rows), !.wkind = WKind(rows, kw)]
       IN IF num_samples = 0
          THEN SetModel(o, constant_fallback(self.num_classes),
                        [call EXCEPT !.path = "empty"])
          ELSE IF Cardinality(y_train_unique) # self.num_classes
          THEN SetModel(o, most_frequent_fallback(dataset, self.num_classes),
                        [call EXCEPT !.path = "missing"])
          ELSE IF sample_weight
          THEN IF WeightSum(dataset) = 0
               THEN Raise("ValueError", [call EXCEPT !.path = "weighted"])
               ELSE \E indices \in Resamples(dataset) :
                      FitModel(o, model_fit(heap[self.model],
                                            CatDataset(indices, FALSE), kwargs),
                               [call EXCEPT !.path = "weighted"])
          ELSE FitModel(o, model_fit(heap[self.model], dataset, kwargs),
                        [call EXCEPT !.path = "unweighted"])

\* DummyRegressor(strategy="mean").fit([[0]], np.zeros(shape=(1, num_classes)))
mean_fallback(num_classes) ==
    [NoEst EXCEPT !.cls = "DummyRegressor", !.strategy = "mean",
                  !.fitted = TRUE, !.n_classes_ = 1,
                  !.constant_ = [i \in 1..num_classes |-> <<0, 1>>]]

\* the fit that trains the configured estimator again after a fallback
RegressionSkLearnWrapper_fit_restoring(o, rows, kw) ==
    /\ o \in DOMAIN objs
    /\ objs[o].kind = "RegressionSkLearnWrapper"
    /\ LET self == objs[o]
           sample_weight == (kw = "sample_weight")
           kwargs == (kw = "sample_weights")
           dataset == CatDataset(rows, sample_weight)
           num_samples == Size(dataset)
           configured == IF heap[self.model].cls = "DummyRegressor"
                         THEN base_model("regressor") ELSE heap[self.model]
           call == [NoCall EXCEPT !.op = "fit", !.obj = o, !.kw = kw,
                                  !.y = y_of(rows), !.wkind = WKind(rows, kw)]
       IN IF num_samples = 0
          THEN SetModel(o, mean_fallback(self.num_classes),
                        [call EXCEPT !.path = "empty"])
          ELSE IF sample_weight
          THEN FitModel(o, model_fit(configured, dataset, kwargs),
                        [call EXCEPT !.path = "weighted"])
          ELSE FitModel(o, model_fit(configured, dataset, kwargs),
                        [call EXCEPT !.path = "unweighted"])

RegressionSkLearnWrapper_fit(o, rows, kw) ==
    /\ o \in DOMAIN objs
    /\ objs[o].kind = "RegressionSkLearnWrapper"
    /\ LET self == objs[o]
           sample_weight == (kw = "sample_weight")
           kwargs == (kw = "sample_weights")
           dataset == CatDataset(rows, sample_weight)
           num_samples == Size(dataset)
           call == [NoCall EXCEPT !.op = "fit", !.obj = o, !.kw = kw,
                                  !.y = y_of(rows), !.wkind = WKind(rows, kw)]
       IN IF num_samples = 0
          THEN SetModel(o, mean_fallback(self.num_classes),
                        [call EXCEPT !.path = "empty"])
          ELSE IF sample_weight
          THEN FitModel(o, model_fit(heap[self.model], dataset, kwargs),
                        [call EXCEPT !.path = "weighted"])
          ELSE FitModel(o, model_fit(heap[self.model], dataset, kwargs),
                        [call EXCEPT !.path = "unweighted"])

Returned(o, n, res) ==
    /\ last' = [NoCall EXCEPT !.op = "predict", !.obj = o, !.x = n,
                              !.out = res.out, !.raised = res.raised]
    /\ UNCHANGED <<objs, heap, Models, subclasses>>

ClassifierSkLearnWrapper_predict(o, n) ==
    /\ o \in DOMAIN objs
    /\ objs[o].kind \in Classifiers
    /\ Returned(o, n, predict_proba(heap[objs[o].model], n))

RegressionSkLearnWrapper_predict(o, n) ==
    /\ o \in DOMAIN objs
    /\ objs[o].kind = "RegressionSkLearnWrapper"
    /\ Returned(o, n, predict_reshape(heap[objs[o].model], n,
                                      objs[o].num_classes))

\* copy.copy(self): a new instance that refers to the objects the original
\* refers to
shallow_copy(o, c) ==
    /\ objs' = [i \in DOMAIN objs \cup {c} |-> objs[IF i = c THEN o ELSE i]]
    /\ heap' = heap

\* copy.deepcopy(self): a new instance that refers to a copy of every object
\* the original refers to
deepcopy(o, c) ==
    /\ objs' = [i \in DOMAIN objs \cup {c} |->
                  IF i = c THEN [objs[o] EXCEPT !.model = NewRef(c)]
                  ELSE objs[i]]
    /\ heap' = [r \in DOMAIN heap \cup {NewRef(c)} |->
                  IF r = NewRef(c) THEN heap[objs[o].model] ELSE heap[r]]

clone(o) ==
    /\ o \in DOMAIN objs
    /\ Cardinality(DOMAIN objs) < MaxObjs
    /\ deepcopy(o, Min((1..MaxObjs) \ DOMAIN objs))
    /\ last' = [NoCall EXCEPT !.op = "clone", !.obj = o]
    /\ UNCHANGED <<Models, subclasses>>

(***************************************************************************)
(* Gradient-trained models.  The learnable parameters are one object on    *)
(* the heap, identified by the number of optimizer steps applied to them   *)
(* since construction; training is the nn.Module mode flag.                *)
(***************************************************************************)
TorchKinds == {"TorchClassMixin", "TorchRegressMixin"}

\* self.parameters() of a newly constructed network
parameters == [NoEst EXCEPT !.cls = "parameters", !.fitted = TRUE]

RECURSIVE SeqsOf(_)
\* the orders in which a shuffle can yield the rows of a bag
SeqsOf(b) ==
    IF DOMAIN b = {} THEN {<<>>}
    ELSE UNION {{<<r>> \o t :
                   t \in SeqsOf([q \in {p \in DOMAIN b : p # r \/ b[p] > 1} |->
                                   IF q = r THEN b[q] - 1 ELSE b[q]])} :
                r \in DOMAIN b}

RECURSIVE Batches(_, _)
\* consecutive batches of batch_size rows, the last one possibly shorter
Batches(s, batch_size) ==
    IF Len(s) = 0 THEN <<>>
    ELSE IF Len(s) <= batch_size THEN <<s>>
    ELSE <<SubSeq(s, 1, batch_size)>>
         \o Batches(SubSeq(s, batch_size + 1, Len(s)), batch_size)

\* the loss with the weights of the batch left out
Loss_mean_reduced(criterion, batch, sample_weight) ==
    [criterion |-> criterion, reduction |-> "mean", weights |-> <<>>,
     aggregate |-> ""]

\* the loss of one batch: the criterion, its reduction, the weights it is
\* multiplied by row for row (none without sample_weight) and what the
\* products are aggregated by
Loss(criterion, batch, sample_weight) ==
    IF sample_weight
    THEN [criterion |-> criterion, reduction |-> "none",
          weights |-> [i \in 1..Len(batch) |-> batch[i][2]],
          aggregate |-> "mean"]
    ELSE [criterion |-> criterion, reduction |-> "mean", weights |-> <<>>,
          aggregate |-> ""]

\* the training loop's batch with optimizer.step() ahead of loss.backward()
BatchSteps_step_first(criterion, batch, sample_weight) ==
    <<[step |-> "to_device", rows |-> Len(batch), batch |-> batch,
       arity |-> IF sample_weight THEN 3 ELSE 2],
      [step |-> "zero_grad"],
      [step |-> "forward", rows |-> Len(batch)],
      [step |-> "loss", rows |-> Len(batch),
       loss |-> Loss(criterion, batch, sample_weight)],
      [step |-> "optimizer_step"],
      [step |-> "backward"]>>

\* the steps of one batch of the training loop, in program order; the batch
\* is a tuple of 2 tensors, or of 3 when the dataset holds weights
BatchSteps(criterion, batch, sample_weight) ==
    <<[step |-> "to_device", rows |-> Len(batch), batch |-> batch,
       arity |-> IF sample_weight THEN 3 ELSE 2],
      [step |-> "zero_grad"],
      [step |-> "forward", rows |-> Len(batch)],
      [step |-> "loss", rows |-> Len(batch),
       loss |-> Loss(criterion, batch, sample_weight)],
      [step |-> "backward"],
      [step |-> "optimizer_step"]>>

RECURSIVE Flatten(_)
Flatten(ss) == IF ss = <<>> THEN <<>> ELSE Head(ss) \o Flatten(Tail(ss))

\* the training loop over the batches of all epochs
TrainingLoop(criterion, batches, sample_weight) ==
    Flatten([i \in 1..Len(batches) |->
               BatchSteps(criterion, batches[i], sample_weight)])

OptimizerSteps(trace) ==
    Cardinality({i \in 1..Len(trace) : trace[i].step = "optimizer_step"})

\* the body shared by TorchClassMixin.fit and TorchRegressMixin.fit
TorchFit(o, rows, kw, batch_size, epochs, criterion) ==
    LET self == objs[o]
        sample_weight == (kw = "sample_weight")
        dataset == CatDataset(rows, sample_weight)
        call == [NoCall EXCEPT !.op = "fit", !.obj = o, !.kw = kw,
                               !.y = y_of(rows), !.wkind = WKind(rows, kw),
                               !.batch_size = batch_size, !.epochs = epochs]
    IN IF kw = "sample_weights"
       THEN \* fit() got an unexpected keyword argument
            Raise("TypeError", call)
       ELSE IF epochs > 0 /\ Size(dataset) = 0
       THEN \* self.train(), then DataLoader(..., shuffle=True) refuses an
            \* empty dataset
            /\ objs' = [objs EXCEPT ![o].training = TRUE]
            /\ last' = [call EXCEPT !.raised = "ValueError",
                                    !.trace = <<[step |-> "train"]>>]
            /\ UNCHANGED <<heap, Models, subclasses>>
       ELSE /\ heap[self.model].steps
                  + epochs * ((Size(dataset) + batch_size - 1) \div batch_size)
                 <= MaxSteps
            /\ \E shuffles \in [1..epochs -> SeqsOf(dataset)] :
              LET batches == Flatten([e \in 1..epochs |->
                                        Batches(shuffles[e], batch_size)])
                  trace == <<[step |-> "train"]>>
                           \o TrainingLoop(criterion, batches, sample_weight)
              IN /\ objs' = [objs EXCEPT ![o].training = TRUE]
                 /\ heap' = [heap EXCEPT ![self.model].steps =
                                            @ + OptimizerSteps(trace)]
                 /\ last' = [call EXCEPT !.trace = trace]
                 /\ UNCHANGED <<Models, subclasses>>

TorchClassMixin_fit(o, rows, kw, batch_size, epochs) ==
    /\ o \in DOMAIN objs
    /\ objs[o].kind = "TorchClassMixin"
    /\ TorchFit(o, rows, kw, batch_size, epochs,
                IF objs[o].num_classes = 2 THEN "binary_cross_entropy"
                ELSE "cross_entropy")

TorchRegressMixin_fit(o, rows, kw, batch_size, epochs) ==
    /\ o \in DOMAIN objs
    /\ objs[o].kind = "TorchRegressMixin"
    /\ TorchFit(o, rows, kw, batch_size, epochs, "mse_loss")

\* self.__call__(x) for n rows of x: a function of the parameters in
\* evaluation mode; in training mode layers such as dropout make the output
\* vary from call to call
Forward(params, n, num_classes, training) ==
    {[nrows |-> n, ncols |-> num_classes, row |-> <<"forward", params.steps, v>>] :
        v \in IF training THEN {0, 1} ELSE {0}}

\* predict without self.eval()
TorchPredictMixin_predict_no_eval(o, n) ==
    /\ o \in DOMAIN objs
    /\ objs[o].kind \in TorchKinds
    /\ \E y_hat \in Forward(heap[objs[o].model], n, objs[o].num_classes,
                            objs[o].training) :
          last' = [NoCall EXCEPT !.op = "predict", !.obj = o, !.x = n,
                                 !.out = y_hat]
    /\ UNCHANGED <<objs, heap, Models, subclasses>>

TorchPredictMixin_predict(o, n) ==
    /\ o \in DOMAIN objs
    /\ objs[o].kind \in TorchKinds
    /\ objs' = [objs EXCEPT ![o].training = FALSE]
    /\ \E y_hat \in Forward(heap[objs[o].model], n, objs[o].num_classes,
                            objs'[o].training) :
          last' = [NoCall EXCEPT !.op = "predict", !.obj = o, !.x = n,
                                 !.out = y_hat]
    /\ UNCHANGED <<heap, Models, subclasses>>

(***************************************************************************)
(* The registry of Model subclasses.  A class name is a sequence of        *)
(* characters; a class is identified by its position in definition order.  *)
(***************************************************************************)
Alphabet == {"A", "a"}

lower_char(c) == IF c = "A" THEN "a" ELSE c

\* str.lower()
lower(name) == [i \in 1..Len(name) |-> lower_char(name[i])]

ClassNames == UNION {[1..n -> Alphabet] : n \in 1..MaxNameLen}

\* registration under the class name as written
init_subclass_as_written(name) ==
    /\ Len(subclasses) < MaxDefs
    /\ subclasses' = Append(subclasses, name)
    /\ Models' = [k \in DOMAIN Models \cup {name} |->
                    IF k = name THEN Len(subclasses) + 1 ELSE Models[k]]
    /\ last' = [NoCall EXCEPT !.op = "class"]
    /\ UNCHANGED <<objs, heap>>

\* Model.__init_subclass__, run when `class name(Model)` is executed
init_subclass(name) ==
    /\ Len(subclasses) < MaxDefs
    /\ subclasses' = Append(subclasses, name)
    /\ Models' = [k \in DOMAIN Models \cup {lower(name)} |->
                    IF k = lower(name) THEN Len(subclasses) + 1 ELSE Models[k]]
    /\ last' = [NoCall EXCEPT !.op = "class"]
    /\ UNCHANGED <<objs, heap>>

(***************************************************************************)
(* Specifications                                                          *)
(***************************************************************************)
Instance(kind, num_classes) ==
    [kind |-> kind, num_classes |-> num_classes, model |-> 1, training |-> TRUE]

\* one newly constructed model: ClassifierSkLearnWrapper(base_model,
\* num_classes), RegressionSkLearnWrapper(base_model) or a network that
\* inherits a training mixin and TorchPredictMixin
Constructed ==
    \/ \E k \in Classifiers, n \in NumClasses :
          /\ objs = (1 :> Instance(k, n))
          /\ heap = (1 :> base_model("classifier"))
    \/ /\ objs = (1 :> Instance("RegressionSkLearnWrapper", 1))
       /\ heap = (1 :> base_model("regressor"))
    \/ \E n \in NumClasses :
          /\ objs = (1 :> Instance("TorchClassMixin", n))
          /\ heap = (1 :> parameters)
    \/ /\ objs = (1 :> Instance("TorchRegressMixin", 1))
       /\ heap = (1 :> parameters)

\* the training sets a caller can pass: the labels of a classifier are one-hot
\* rows of width num_classes, so a class index is one of 0..num_classes-1.  The
\* training loop of a network hands the labels to the loss and never inspects
\* them: its rows differ in their weight only.
TrainingSets(o) ==
    IF objs[o].kind \in Classifiers THEN DatasetsByWidth[objs[o].num_classes]
    ELSE IF objs[o].kind = "RegressionSkLearnWrapper" THEN RegressionDatasets
    ELSE TorchDatasets

Init ==
    /\ Constructed
    /\ last = NoCall
    /\ Models = << >>
    /\ subclasses = << >>

Fit(o, rows, kw) ==
    \/ ClassifierSkLearnWrapper_fit(o, rows, kw)
    \/ ClassifierUnweightedSkLearnWrapper_fit(o, rows, kw)
    \/ RegressionSkLearnWrapper_fit(o, rows, kw)

\* the instances of the given kinds
Of(kinds) == {o \in DOMAIN objs : objs[o].kind \in kinds}

\* what a caller can pass as (x_train, y_train, sample_weight) under keyword kw
Passed(o, kw) ==
    IF kw = "sample_weight" THEN TrainingSets(o)
    ELSE UnitDatasets \cap TrainingSets(o)

Next ==
    \/ \E o \in Of(Adapters), kw \in Keywords : \E rows \in Passed(o, kw) :
          Fit(o, rows, kw)
    \/ \E o \in Of(TorchKinds), kw \in Keywords : \E rows \in Passed(o, kw) :
          \E batch_size \in 1..MaxRows, epochs \in 0..MaxEpochs :
             \/ TorchClassMixin_fit(o, rows, kw, batch_size, epochs)
             \/ TorchRegressMixin_fit(o, rows, kw, batch_size, epochs)
    \/ \E o \in DOMAIN objs, n \in 1..MaxX :
          \/ ClassifierSkLearnWrapper_predict(o, n)
          \/ RegressionSkLearnWrapper_predict(o, n)
          \/ TorchPredictMixin_predict(o, n)

Spec == Init /\ [][Next]_vars

\* the same with clones of the instance
NextClone ==
    \/ Next
    \/ \E o \in DOMAIN objs : clone(o)

SpecClone == Init /\ [][NextClone]_vars

\* a gradient-trained model on its own, with training sets large enough for a
\* last batch shorter than batch_size and with rows of two different weights
LoopDatasets == AllBags({0} \X {1, MaxWeight + 1}, MaxLoopRows)

InitTorch ==
    /\ Init
    /\ \A o \in DOMAIN objs : objs[o].kind \in TorchKinds

NextTorch ==
    \/ \E o \in Of(TorchKinds), kw \in Keywords :
          \E rows \in {d \in LoopDatasets : kw = "sample_weight" \/ AllUnit(d)} :
             \E batch_size \in 1..MaxLoopRows, epochs \in 0..MaxEpochs :
                \/ TorchClassMixin_fit(o, rows, kw, batch_size, epochs)
                \/ TorchRegressMixin_fit(o, rows, kw, batch_size, epochs)
    \/ \E o \in Of(TorchKinds), n \in 1..MaxX : TorchPredictMixin_predict(o, n)

SpecTorch == InitTorch /\ [][NextTorch]_vars

\* the registry on its own: the process after `class Model` has been executed
InitRegistry ==
    /\ objs = << >>
    /\ heap = << >>
    /\ last = NoCall
    /\ Models = << >>
    /\ subclasses = << >>

NextRegistry == \E name \in ClassNames : init_subclass(name)

SpecRegistry == InitRegistry /\ [][NextRegistry]_vars

(***************************************************************************)
(* Properties                                                              *)
(***************************************************************************)
Est(o) == heap[objs[o].model]

\* what an instance is, apart from which heap cell holds its estimator or
\* parameters
State(obs, h, o) == <<[obs[o] EXCEPT !.model = 0], h[obs[o].model]>>

IsFit == last.op = "fit"
IsPredict == last.op = "predict"
OnAdapter == last.obj \in DOMAIN objs /\ objs[last.obj].kind \in Adapters
OnClassifier == last.obj \in DOMAIN objs /\ objs[last.obj].kind \in Classifiers
OnTorch == last.obj \in DOMAIN objs /\ objs[last.obj].kind \in TorchKinds

\* the estimator is as a completed fit left it: a DummyClassifier that raised
\* because its constant is not among the classes is not
Consistent(est) ==
    /\ est.fitted
    /\ ~(est.cls = "DummyClassifier" /\ est.strategy = "constant"
         /\ IndexOf(est.classes_, 0) = {})

\* C1: after successful fits, predict of a classical adapter returns as many
\* rows as x has and num_classes columns
C1_PredictShape ==
    (IsPredict /\ OnAdapter /\ Consistent(Est(last.obj)))
        => /\ last.raised = "none"
           /\ last.out.nrows = last.x
           /\ last.out.ncols = objs[last.obj].num_classes

ConstantRow(o) ==
    IF objs[o].kind \in Classifiers THEN OneHot(objs[o].num_classes, 0)
    ELSE [i \in 1..objs[o].num_classes |-> <<0, 1>>]

\* C2: a fit of a classical adapter on zero rows does not raise, and the
\* predict that follows it returns, row for row, the one-hot vector of class 0
\* (classifiers) or the zero vector (regression), of width num_classes
C2_EmptyFit ==
    [][/\ (IsFit /\ OnAdapter /\ Size(last.y) = 0)' => (last.raised = "none")'
       /\ (/\ IsFit /\ OnAdapter /\ Size(last.y) = 0
           /\ IsPredict' /\ last'.obj = last.obj)
            => /\ last'.raised = "none"
               /\ last'.out = [nrows |-> last'.x,
                               ncols |-> objs[last.obj].num_classes,
                               row |-> ConstantRow(last.obj)]]_vars

C2_Witness ==
    /\ IsPredict /\ OnClassifier
    /\ Est(last.obj) = constant_fallback(objs[last.obj].num_classes)
    /\ last.out.row = OneHot(objs[last.obj].num_classes, 0)

\* the class a most-frequent fallback saw most often
MostFrequent(est) == est.classes_[ArgMax(est.class_prior_) + 1]

FromMissingClass(o) ==
    /\ Est(o).cls = "DummyClassifier" /\ Est(o).strategy = "most_frequent"
    /\ Len(Est(o).classes_) < objs[o].num_classes

\* C3: after a fit on non-empty data with a class missing, predict puts
\* probability 1 on the column of the most frequent observed class
C3_MostFrequentColumn ==
    (IsPredict /\ OnClassifier /\ FromMissingClass(last.obj))
        => /\ last.raised = "none"
           /\ last.out = [nrows |-> last.x,
                          ncols |-> objs[last.obj].num_classes,
                          row |-> OneHot(objs[last.obj].num_classes,
                                         MostFrequent(Est(last.obj)))]

\* C4: clone returns a copy in the state of the original that shares nothing
\* with it, and a fit or predict on one instance leaves every other instance
\* as it was
C4_CloneIndependent ==
    [][/\ (last'.op = "clone" /\ DOMAIN objs' # DOMAIN objs)
            => \A c \in DOMAIN objs' \ DOMAIN objs :
                  /\ State(objs', heap', c) = State(objs, heap, last'.obj)
                  /\ \A p \in DOMAIN objs : State(objs', heap', p)
                                            = State(objs, heap, p)
                  /\ \A p \in DOMAIN objs : objs'[p].model # objs'[c].model
       /\ last'.op \in {"fit", "predict"}
            => \A p \in DOMAIN objs \ {last'.obj} :
                  State(objs', heap', p) = State(objs, heap, p)]_vars

C4_Witness ==
    /\ Cardinality(DOMAIN objs) = 2
    /\ IsFit /\ ~last.replaced /\ last.raised = "none"
    /\ Est(1) # Est(2)

UnitRows(y) == MapBag(y, LAMBDA c : <<c, 1>>)

Ones(n) == [i \in 1..n |-> 1]

\* the weight each row's loss carries in the mean of a batch
EffectiveWeights(l) ==
    IF l.loss.reduction = "mean" THEN Ones(l.rows) ELSE l.loss.weights

LossSteps(trace) == {i \in 1..Len(trace) : trace[i].step = "loss"}

C6_ContractKeyword ==
    (IsFit /\ last.kw = "sample_weights")
        => /\ last.raised = "none"
           /\ OnAdapter => last.path # "unweighted"
           /\ OnTorch => \A i \in LossSteps(last.trace) :
                            last.trace[i].loss.reduction = "none"

\* C7: predict changes neither the estimator or parameters nor num_classes,
\* leaves a gradient-trained model in evaluation mode, and repeated with the
\* same x and no fit in between returns the same output
C7_PredictPure ==
    [][IsPredict'
         => LET o == last'.obj IN
            /\ heap' = heap
            /\ DOMAIN objs' = DOMAIN objs
            /\ \A p \in DOMAIN objs :
                  [objs'[p] EXCEPT !.training = objs[p].training] = objs[p]
            /\ \A p \in DOMAIN objs \ {o} : objs'[p] = objs[p]
            /\ objs[o].kind \in TorchKinds => ~objs'[o].training
            /\ objs[o].kind \in Adapters => objs'[o] = objs[o]
            /\ (IsPredict /\ last.obj = o /\ last.x = last'.x)
                 => last'.out = last.out /\ last'.raised = last.raised]_vars

C7_Witness ==
    /\ IsPredict /\ OnTorch
    /\ Est(last.obj).steps > 0
    /\ ~objs[last.obj].training
    /\ last.out.nrows = last.x

\* the subclasses whose lowercased name is key
Named(key) == {i \in 1..Len(subclasses) : lower(subclasses[i]) = key}

Max(S) == CHOOSE m \in S : \A n \in S : n <= m

\* C8 as stated: the registry maps the lowercased name of every subclass
\* defined so far to that subclass
C8_LookupReturnsSubclass ==
    \A i \in 1..Len(subclasses) :
       /\ lower(subclasses[i]) \in DOMAIN Models
       /\ Models[lower(subclasses[i])] = i

\* C8 amended: the registry maps the lowercased name of every subclass defined
\* so far to the subclass defined last under that lowercased name, and no key
\* is ever removed
C8_LookupReturnsLatest ==
    [][/\ \A i \in 1..Len(subclasses') :
             LET key == lower(subclasses'[i]) IN
             /\ key \in DOMAIN Models'
             /\ Models'[key] = Max({j \in 1..Len(subclasses') :
                                      lower(subclasses'[j]) = key})
       /\ DOMAIN Models \subseteq DOMAIN Models'
       /\ DOMAIN Models' = {lower(subclasses'[i]) : i \in 1..Len(subclasses')}]_vars

C8_Witness ==
    \E i, j \in 1..Len(subclasses) :
       /\ i < j
       /\ subclasses[i] # subclasses[j]
       /\ lower(subclasses[i]) = lower(subclasses[j])
       /\ Models[lower(subclasses[i])] = j

\* C9: a fit of a gradient-trained model on zero rows completes, processes no
\* batch, applies no optimizer step and leaves the parameters as they were
C9_TorchEmptyFit ==
    [][(IsFit /\ OnTorch /\ Size(last.y) = 0 /\ last.kw # "sample_weights")'
         => /\ last'.raised = "none"
            /\ OptimizerSteps(last'.trace) = 0
            /\ LossSteps(last'.trace) = {}
            /\ heap' = heap]_vars

\* the path of a fit of a classifier adapter by the order of the four cases
PathOf(y, kw, num_classes) ==
    IF Size(y) = 0 THEN "empty"
    ELSE IF Cardinality(DOMAIN y) < num_classes THEN "missing"
    ELSE IF kw = "sample_weight" THEN "weighted"
    ELSE "unweighted"

\* C10: a fit of a classifier adapter takes the first path that applies of:
\* zero rows (constant fallback), fewer distinct classes than num_classes
\* (most-frequent fallback), weights given (weighted fit, or fit on a resample
\* in the unweighted variant), unweighted fit; the estimator object is replaced
\* on the first two and fitted in place on the others
C10_FitPaths ==
    [][(IsFit /\ OnClassifier)'
         => LET o == last'.obj
                m == objs[o].model
                path == PathOf(last'.y, last'.kw, objs[o].num_classes)
                new == heap'[objs'[o].model]
                weighted ==
                    IF objs[o].kind = "ClassifierSkLearnWrapper"
                    THEN {D \in TrainingSets(o) : y_of(D) = last'.y}
                    ELSE {CatDataset(b, FALSE) :
                            b \in Resamples(UnitRows(last'.y))}
            IN /\ last'.path = path
               /\ last'.replaced <=> path \in {"empty", "missing"}
               /\ path = "empty"
                    => /\ new.cls = "DummyClassifier" /\ new.strategy = "constant"
                       /\ new.classes_ = <<0>>
                       /\ last'.raised = "none"
               /\ path = "missing"
                    => /\ new.cls = "DummyClassifier"
                       /\ new.strategy = "most_frequent"
                       /\ new.classes_ = SortedSeq(DOMAIN last'.y)
                       /\ last'.raised = "none"
               /\ path = "weighted"
                    => /\ objs' = objs
                       /\ \E D \in weighted :
                             new = model_fit(heap[m], D, FALSE).est
               /\ path = "unweighted"
                    => /\ objs' = objs
                       /\ new = model_fit(heap[m], UnitRows(last'.y),
                                          last'.kw = "sample_weights").est]_vars

C10_Witness ==
    /\ IsFit /\ OnClassifier
    /\ last.path = "weighted" /\ ~last.replaced /\ last.raised = "none"
    /\ Est(last.obj).cls = "classifier"
    /\ Cardinality(DOMAIN last.y) = objs[last.obj].num_classes

\* the labels of a batch, as a bag
RECURSIVE SumSeqBag(_)
SumSeqBag(batch) ==
    IF batch = <<>> THEN EmptyBag
    ELSE SetToBag({Head(batch)[1]}) (+) SumSeqBag(Tail(batch))

Ceil(n, b) == (n + b - 1) \div b

\* the labels of the rows of batches first..last of a trace, as a bag
RECURSIVE Visited(_, _, _)
Visited(trace, first, last_batch) ==
    IF first > last_batch THEN EmptyBag
    ELSE LET batch == trace[2 + 6 * (first - 1)].batch
         IN SumSeqBag(batch) (+) Visited(trace, first + 1, last_batch)

\* C11: a fit of a gradient-trained model over n >= 1 rows (or with no epoch)
\* with batch size b and e epochs, the weights given as sample_weight or not
\* at all, enters training mode once before any batch, visits in each epoch
\* every row once in batches of at most b rows, runs for each batch the steps
\* to_device, zero_grad, forward, loss, backward, optimizer_step in this order,
\* applies e * ceil(n / b) optimizer steps and returns the same model
C11_TrainingLoopOrder ==
    [][(/\ IsFit /\ OnTorch /\ last.kw # "sample_weights"
        /\ Size(last.y) > 0 \/ last.epochs = 0)'
         => LET o == last'.obj
                t == last'.trace
                n == Size(last'.y)
                b == last'.batch_size
                e == last'.epochs
                k == Ceil(n, b)
                order == <<"to_device", "zero_grad", "forward", "loss",
                           "backward", "optimizer_step">>
            IN /\ last'.raised = "none"
               /\ Len(t) = 1 + 6 * e * k
               /\ t[1].step = "train"
               /\ \A j \in 1..(e * k) : \A i \in 1..6 :
                     t[1 + 6 * (j - 1) + i].step = order[i]
               /\ \A j \in 1..(e * k) :
                     t[2 + 6 * (j - 1)].rows \in 1..b
               /\ \A epoch \in 1..e :
                     Visited(t, (epoch - 1) * k + 1, epoch * k) = last'.y
               /\ OptimizerSteps(t) = e * k
               /\ heap'[objs[o].model].steps = Est(o).steps + e * k
               /\ objs' = [objs EXCEPT ![o].training = TRUE]
               /\ DOMAIN heap' = DOMAIN heap]_vars

C11_Witness ==
    /\ IsFit /\ OnTorch /\ last.raised = "none"
    /\ last.epochs = 1 /\ last.batch_size = 2 /\ Size(last.y) = 3
    /\ Len(last.trace) = 13
    /\ last.trace[2].rows = 2 /\ last.trace[8].rows = 1
    /\ OptimizerSteps(last.trace) = 2
    /\ objs[last.obj].training

\* C12: in a fit of a gradient-trained model the loss of every batch is binary
\* cross-entropy exactly when the model is a classifier with num_classes = 2,
\* cross-entropy for a classifier with any other num_classes and the squared
\* error for a regressor; exactly when weights are given the loss is computed
\* without reduction, multiplied row by row by the weights at the same
\* positions of the batch and then averaged, and else it is mean-reduced; the
\* batch is a 3-tuple exactly when weights are given and a 2-tuple otherwise
C12_LossSelection ==
    (IsFit /\ OnTorch)
        => LET self == objs[last.obj]
               t == last.trace
               weighted == (last.kw = "sample_weight")
           IN \A i \in LossSteps(t) :
                 LET l == t[i].loss
                     batch == t[i - 3].batch
                 IN /\ t[i - 3].step = "to_device"
                    /\ self.kind = "TorchClassMixin"
                         => /\ l.criterion \in {"binary_cross_entropy",
                                                "cross_entropy"}
                            /\ l.criterion = "binary_cross_entropy"
                                 <=> self.num_classes = 2
                    /\ self.kind = "TorchRegressMixin"
                         => l.criterion = "mse_loss"
                    /\ weighted <=> l.reduction = "none"
                    /\ weighted <=> t[i - 3].arity = 3
                    /\ ~weighted <=> t[i - 3].arity = 2
                    /\ weighted
                         => /\ Len(l.weights) = Len(batch)
                            /\ \A r \in 1..Len(batch) :
                                  l.weights[r] = batch[r][2]
                            /\ l.aggregate = "mean"
                    /\ ~weighted
                         => l.reduction = "mean" /\ l.weights = <<>>

C12_Witness ==
    /\ IsFit /\ OnTorch /\ last.raised = "none"
    /\ last.kw = "sample_weight"
    /\ objs[last.obj].kind = "TorchClassMixin"
    /\ objs[last.obj].num_classes = 2
    /\ \E i \in LossSteps(last.trace) :
          /\ last.trace[i].loss.criterion = "binary_cross_entropy"
          /\ last.trace[i].loss.weights = <<2, 1>>
          /\ last.trace[i - 3].arity = 3

\* the estimator is the one the adapter was constructed with
Original(est) == est.cls \in {"classifier", "regressor"}

\* C13: the estimator of a classical adapter is the one it was constructed
\* with until a fit takes a fallback path (empty data, or a missing class for
\* a classifier) and never again afterwards: every later fit on non-empty,
\* complete data is a fit of the substituted dummy estimator, in place
C13_FallbackPermanent ==
    /\ \A o \in Of(Adapters) : Original(Est(o))
    /\ [][\A o \in Of(Adapters) :
            LET old == Est(o)
                new == heap'[objs'[o].model]
                fits == IsFit' /\ last'.obj = o
                fallback == fits /\ last'.path \in {"empty", "missing"}
                in_place == fits /\ last'.path \in {"weighted", "unweighted"}
                trained_on ==
                    IF /\ objs[o].kind = "ClassifierUnweightedSkLearnWrapper"
                       /\ last'.path = "weighted"
                    THEN {CatDataset(b, FALSE) :
                            b \in Resamples(UnitRows(last'.y))}
                    ELSE {D \in TrainingSets(o) \cup UnitDatasets :
                            y_of(D) = last'.y}
            IN /\ o \in DOMAIN objs'
               /\ Original(new) <=> (Original(old) /\ ~fallback)
               /\ fallback => last'.replaced
               /\ (in_place /\ ~Original(old))
                    => /\ objs'[o].model = objs[o].model
                       /\ new.cls = old.cls
                       /\ new.cls \in {"DummyClassifier", "DummyRegressor"}
                       /\ \E D \in trained_on :
                             new = model_fit(old, D,
                                       last'.kw = "sample_weights").est]_vars

C13_Witness ==
    /\ IsFit /\ OnAdapter /\ last.raised = "none"
    /\ last.path = "unweighted" /\ ~last.replaced
    /\ Est(last.obj).cls = "DummyClassifier"
    /\ Est(last.obj).strategy = "most_frequent"
    /\ Cardinality(DOMAIN last.y) = objs[last.obj].num_classes

====
